---- MODULE Spec2Model ----
(***************************************************************************)
(* datadog-pgo: the acquisition pipeline of one run of the tool.           *)
(*                                                                         *)
(* run (main.go:42) builds the queries, creates the client and a context   *)
(* with a deadline, calls the pipeline and writes the merged profile.      *)
(* Two pipelines exist in the source:                                      *)
(*   - searchDownloadMergePGOEndpoint (main.go:284): one combined catalog  *)
(*     call, then ProfilesDownload.MergedProfile over the archive;         *)
(*   - searchDownloadMerge (main.go:199): a search pool and a download     *)
(*     pool (sourcegraph/conc ContextPool), one search task per query,     *)
(*     one download task per retained candidate.                           *)
(* Every catalog call passes Client.limitConcurrency (a buffered channel   *)
(* of capacity maxConcurrency).                                            *)
(***************************************************************************)
EXTENDS Integers, Sequences, FiniteSets, TLC

\* ---------------------------------------------------------------- bounds
NumQueries == 2
MaxResults == 3
MaxLimit == 3
MaxEntries == 2
NumMergers == 3
NumStacks == 2
MaxValue == 1
MaxSamples == 2
NumFuncs == 3
MaxLeafSamples == 3

\* ------------------------------------------------------ program constants
maxConcurrency == 5

\* ------------------------------------------------------------ vocabulary
Queries == 1..NumQueries
Candidates == Queries \X (1..MaxResults)
Groups == {"query", "download"}
FailGroups == Groups \cup {"pgo"}
Contexts == {"run", "query", "download"}
Schemas == {"A", "B"}

\* error values: the nil error, and one error per failing task or call
NoErr == <<"nil", 0, 0>>
SearchErr(q) == <<"query", q, 0>>
DownloadErr(c) == <<"download", c[1], c[2]>>
PGOErr == <<"pgo", 0, 0>>
ArchiveErr(k) == <<"archive", 0, k>>

\* a profile.Sample: its stack, its value, and whether it carries labels
Sample(st, v, l) == [stack |-> st, value |-> v, label |-> l]

\* a *profile.Profile: nil, or its sample types, the ids it was built from and
\* its samples
NilProfile == [schema |-> "nil", srcs |-> {}, sample |-> <<>>]

\* the profile parsed from the download of id: one labelled sample of a stack
\* of its own
Profile(s, id) == [schema |-> s, srcs |-> {id}, sample |-> <<Sample(id, 1, TRUE)>>]

VARIABLES
    impl,         \* what run's call of SearchDownloadMerge runs: "pgo", "pool" or "self"
    limit,        \* -profiles: SearchQuery.Limit of every query
    failF,        \* -fail; read only by run's deferred handler, drawn where it is read
    mpc,          \* position of the main goroutine (run)
    ctxDone,      \* ctxDone[c]: context c is cancelled
    concurrency,  \* number of elements in Client.concurrency
    spc,          \* spc[q]: position of the search task of query q
    sres,         \* sres[q]: how the search call of q ended
    found,        \* found[q]: the candidates SearchProfiles got for q
    dpc,          \* dpc[c]: position of the download task of candidate c
    poolErr,      \* poolErr[g]: first error recorded by pool g
    firstFailure, \* firstFailure[g]: the error of the task of g that failed first in time
    firstGroup,   \* the group of the task that failed first in time
    profile,      \* MergedProfile.profile
    profileIDs,   \* MergedProfile.profileIDs
    usedAfterMerge, \* history: the ids of the profiles their producer used after Merge
    archive,      \* history: the archive the pgo endpoint answered with
    deadlineAt,   \* history: "none", or the catalog calls when the deadline expired:
                  \* "pending" (some not yet sent), "inflight" or "idle"
    ret,          \* what the pipeline returned to run
    dst,          \* the destination file
    exitCode,     \* the exit code of the process
    minput,       \* minput[t]: the profile caller t decoded, as decoded
    mprof,        \* mprof[t]: the profile object caller t passes to Merge
    mpos,         \* mpos[t]: position of caller t in MergedProfile.Merge
    mres,         \* mres[t]: what Merge returned to caller t
    mu,           \* MergedProfile.mu: the caller that holds it, 0 when free
    fname,        \* fname[f]: Function.Name of function object f of the profile
    leaf,         \* leaf[i]: the function of Location[0].Line[0] of sample i, 0 if none
    fname0,       \* history: fname when ApplyNoInlineHack was called
    leaf0,        \* history: leaf when ApplyNoInlineHack was called
    hpos          \* "before" or "after" the call of ApplyNoInlineHack

vars == <<impl, limit, failF, mpc, ctxDone, concurrency, spc, sres, found, dpc,
          poolErr, firstFailure, firstGroup, profile, profileIDs, usedAfterMerge,
          archive, deadlineAt, ret, dst, exitCode, minput, mprof, mpos, mres, mu,
          fname, leaf, fname0, leaf0, hpos>>

cfgVars == <<impl, limit>>
taskVars == <<spc, sres, found, dpc>>
errVars == <<poolErr, firstFailure, firstGroup>>
accVars == <<profile, profileIDs, usedAfterMerge, archive>>
runVars == <<ret, dst, exitCode>>
mergeVars == <<minput, mprof, mpos, mres, mu>>
hackVars == <<fname, leaf, fname0, leaf0, hpos>>
unitVars == <<mergeVars, hackVars>>
profVars == <<profile, profileIDs>>
pipeVars == <<cfgVars, failF, mpc, ctxDone, concurrency, taskVars, errVars,
              usedAfterMerge, archive, deadlineAt, runVars>>

NoRet == [prof |-> "none", err |-> NoErr]

\* no answer of the pgo endpoint
NoArchive == [zip |-> FALSE, files |-> <<>>]

\* SearchDownloadMerge of main.go with usePGOEndpoint = use: the pgo endpoint
\* path when true, a call of SearchDownloadMerge itself when false. "pool" is
\* searchDownloadMerge, which the run of part_003 calls directly.
SearchDownloadMergeImpl(use) == IF use THEN "pgo" ELSE "self"

\* the callers of Merge of the Merge-level specification, and their profile ids
Mergers == 1..NumMergers
MergerID(t) == <<0, t>>
Stacks == 1..NumStacks

\* run has not started
RunIdle ==
    /\ failF = FALSE
    /\ mpc = "start"
    /\ ctxDone = [c \in Contexts |-> FALSE]
    /\ concurrency = 0
    /\ spc = [q \in Queries |-> "idle"]
    /\ sres = [q \in Queries |-> "none"]
    /\ found = [q \in Queries |-> <<>>]
    /\ dpc = [c \in Candidates |-> "none"]
    /\ poolErr = [g \in Groups |-> NoErr]
    /\ firstFailure = [g \in FailGroups |-> NoErr]
    /\ firstGroup = "none"
    /\ profile = NilProfile
    /\ profileIDs = <<>>
    /\ usedAfterMerge = {}
    /\ archive = NoArchive
    /\ deadlineAt = "none"
    /\ ret = NoRet
    /\ dst = "absent"
    /\ exitCode = -1

\* no caller of the Merge-level specification exists
MergeIdle ==
    /\ minput = [t \in Mergers |-> NilProfile]
    /\ mprof = [t \in Mergers |-> NilProfile]
    /\ mpos = [t \in Mergers |-> "idle"]
    /\ mres = [t \in Mergers |-> "none"]
    /\ mu = 0

\* the function objects of the profile given to ApplyNoInlineHack
Funcs == 1..NumFuncs

\* no profile is given to ApplyNoInlineHack
HackIdle ==
    /\ fname = [f \in Funcs |-> <<>>]
    /\ leaf = <<>>
    /\ fname0 = fname
    /\ leaf0 = leaf
    /\ hpos = "before"

Init ==
    /\ impl \in {SearchDownloadMergeImpl(use) : use \in BOOLEAN} \cup {"pool"}
    /\ limit \in 0..MaxLimit
    /\ RunIdle
    /\ MergeIdle
    /\ HackIdle

\* ----------------------------------------------------------- pure helpers

\* limitConcurrency: the returned func receives from the channel, which
\* frees the slot
ReleaseNever(n) == n
Release(n) == n - 1

\* limitConcurrency: the send blocks while the channel is full
CanAcquireOpen(n) == TRUE
CanAcquire(n) == n < maxConcurrency

\* context.WithCancel / WithTimeout: cancelling a context cancels its children
Cancel(done, c) ==
    IF c = "run" THEN [x \in Contexts |-> TRUE] ELSE [done EXCEPT ![c] = TRUE]

\* ContextPool.Go with WithCancelOnError: a task error cancels the pool's context
NoCancelOnError(done, g) == done
CancelOnError(done, g) == Cancel(done, g)

\* ErrorPool with WithFirstError: the first error added is the one kept
AddErrLast(errs, g, e) == [errs EXCEPT ![g] = e]
AddErr(errs, g, e) == IF errs[g] = NoErr THEN [errs EXCEPT ![g] = e] ELSE errs

\* http.Client.Do: a request whose context is already done is not sent
StartsCallAlways(done, g) == TRUE
StartsCall(done, g) == ~done[g]

\* SearchProfiles: an empty response is the error "no profiles found"
NoProfilesFoundNever(data) == FALSE
NoProfilesFound(data) == Len(data) = 0

\* profiles[:q.Limit] when len(profiles) > q.Limit
TruncateNone(profiles, l) == profiles
Truncate(profiles, l) ==
    IF Len(profiles) > l THEN SubSeq(profiles, 1, l) ELSE profiles

Min(a, b) == IF a < b THEN a ELSE b
Range(s) == {s[i] : i \in 1..Len(s)}

\* the candidates a search response of r items lists, in the catalog's order
Response(q, r) == [i \in 1..r |-> <<q, i>>]

\* profile.Merge on the samples: a sample whose key (stack and labels) is
\* already there adds its value to that sample, another one is appended
RECURSIVE MergeSamples(_, _)
MergeSamples(out, in) ==
    IF in = <<>> THEN out
    ELSE LET s == Head(in)
             same == {i \in 1..Len(out) :
                        out[i].stack = s.stack /\ out[i].label = s.label}
         IN IF same = {}
            THEN MergeSamples(Append(out, s), Tail(in))
            ELSE LET i == CHOOSE j \in same : TRUE IN
                 MergeSamples([out EXCEPT ![i].value = @ + s.value], Tail(in))

\* profile.Merge: fails (nil, err) when the sample types differ
ProfileMergeOverwrites(a, b) == [prof |-> b, ok |-> a.schema = b.schema]
ProfileMerge(a, b) ==
    IF a.schema = b.schema
    THEN [prof |-> [schema |-> a.schema, srcs |-> a.srcs \cup b.srcs,
                    sample |-> MergeSamples(<<>>, a.sample \o b.sample)],
          ok |-> TRUE]
    ELSE [prof |-> NilProfile, ok |-> FALSE]

\* MergedProfile.Merge, "Drop labels": s.Label = nil for every sample of prof
StripLabelsNot(prof) == prof
StripLabels(prof) ==
    [prof EXCEPT !.sample = [i \in 1..Len(@) |-> [@[i] EXCEPT !.label = FALSE]]]

\* MergedProfile.Merge, the id: p.profileIDs = append(p.profileIDs, id)
AppendIDTwice(ids, id) == ids \o <<id, id>>
AppendID(ids, id) == Append(ids, id)

\* MergedProfile.Merge under p.mu: the first profile is taken as it is, a
\* later one is merged with the current one
ApplyProfile(cur, prof) ==
    IF cur = NilProfile THEN [prof |-> prof, ok |-> TRUE] ELSE ProfileMerge(cur, prof)

\* MergedProfile.Merge: the accumulator after the call, and whether it failed
Merge(acc, id, prof) ==
    LET m == ApplyProfile(acc.prof, StripLabels(prof)) IN
    [prof |-> m.prof, ids |-> AppendID(acc.ids, id), ok |-> m.ok]

EmptyAcc == [prof |-> NilProfile, ids |-> <<>>, ok |-> TRUE]

\* what DownloadProfile can hand back: an archive whose cpu.pprof parses to a
\* profile of one of the schemas, an archive without cpu.pprof or no zip at all
\* (ExtractCPUProfile fails), or a cpu.pprof that does not parse
DataKinds == Schemas \cup {"nozip", "badpprof"}

\* what the pgo endpoint can hand back: not a zip, or a zip of entries each of
\* which parses to a profile of one of the schemas or does not parse
Entries == Schemas \cup {"bad"}
Archives ==
    {[zip |-> FALSE, files |-> <<>>]} \cup
    {[zip |-> TRUE, files |-> f] : f \in UNION {[1..n -> Entries] : n \in 0..MaxEntries}}

\* the loop of ProfilesDownload.MergedProfile without its returns on an error:
\* an entry that does not parse or does not merge is passed over
RECURSIVE MergeEntriesSkipsFailed(_, _, _, _)
MergeEntriesSkipsFailed(acc, used, files, k) ==
    IF k > Len(files) THEN [acc |-> acc, used |-> used, err |-> NoErr]
    ELSE IF files[k] = "bad" THEN MergeEntriesSkipsFailed(acc, used, files, k + 1)
    ELSE LET m == Merge(acc, <<0, k>>, Profile(files[k], <<0, k>>)) IN
         IF ~m.ok THEN MergeEntriesSkipsFailed(acc, used, files, k + 1)
         ELSE MergeEntriesSkipsFailed(m, used \cup {<<0, k>>}, files, k + 1)

\* the loop of ProfilesDownload.MergedProfile from entry k on; after a Merge
\* that succeeded the loop reads prof again (prof.TimeNanos, cpuCores(prof),
\* prof.DurationNanos): used collects the ids of these profiles
RECURSIVE MergeEntries(_, _, _, _)
MergeEntries(acc, used, files, k) ==
    IF k > Len(files) THEN [acc |-> acc, used |-> used, err |-> NoErr]
    ELSE IF files[k] = "bad" THEN [acc |-> acc, used |-> used, err |-> ArchiveErr(k)]
    ELSE LET m == Merge(acc, <<0, k>>, Profile(files[k], <<0, k>>)) IN
         IF ~m.ok THEN [acc |-> m, used |-> used, err |-> ArchiveErr(k)]
         ELSE MergeEntries(m, used \cup {<<0, k>>}, files, k + 1)

\* ProfilesDownload.MergedProfile
MergedProfileOf(a) ==
    IF ~a.zip THEN [acc |-> EmptyAcc, used |-> {}, err |-> ArchiveErr(0)]
    ELSE MergeEntries(EmptyAcc, {}, a.files, 1)

\* the (profile, error) pairs of the pipelines
Failure(e) == [prof |-> "nil", err |-> e]
Success == [prof |-> "merged", err |-> NoErr]

\* searchDownloadMergePGOEndpoint when SearchAndDownloadProfiles fails
PGOCallFailed(e) == [prof |-> "nil", err |-> NoErr]

\* searchDownloadMerge after queryPool.Wait: an error returns at once
QueryWaitResult(errs) ==
    IF errs["query"] # NoErr THEN Failure(errs["query"]) ELSE NoRet

\* searchDownloadMerge after downloadPool.Wait
DownloadWaitIgnoresErr(errs) == Success
DownloadWaitResult(errs) ==
    IF errs["download"] # NoErr THEN Failure(errs["download"]) ELSE Success

\* main and the deferred handler of run: the exit code for run's error
ExitCodeAlwaysFails(err, fail) == IF err # NoErr THEN 1 ELSE 0
ExitCodeOf(err, fail) == IF err # NoErr /\ fail THEN 1 ELSE 0

\* ------------------------------------------------------------------- run

SearchDone(q) == spc[q] \in {"done", "failed"}
DownloadDoneNoWait(c) == TRUE
DownloadDone(c) == dpc[c] \in {"none", "done", "failed"}
Alive == mpc # "exited"

\* history: a call or task of g fails with e
Failed(g, e) ==
    /\ firstFailure' = [firstFailure EXCEPT ![g] = IF @ = NoErr THEN e ELSE @]
    /\ firstGroup' = IF firstGroup = "none" THEN g ELSE firstGroup

\* the error that happened first in time, in any group
FirstError == IF firstGroup = "none" THEN NoErr ELSE firstFailure[firstGroup]

\* a task of pool g returns the error e
TaskFails(g, e) ==
    /\ poolErr' = AddErr(poolErr, g, e)
    /\ ctxDone' = CancelOnError(ctxDone, g)
    /\ Failed(g, e)

\* run up to the call of SearchDownloadMerge; ClientFromEnv fails when a key is unset
RunStart ==
    /\ mpc = "start"
    /\ \E keys \in BOOLEAN :
          IF keys
          THEN /\ mpc' = "pipeline"
               /\ UNCHANGED <<failF, exitCode>>
          ELSE /\ mpc' = "exited"
               /\ \E fail \in BOOLEAN :
                     /\ failF' = fail
                     /\ exitCode' = ExitCodeOf(<<"config", 0, 0>>, fail)
    /\ UNCHANGED <<cfgVars, unitVars, deadlineAt, ctxDone, concurrency, taskVars, errVars, accVars, ret, dst>>

\* a catalog call is pending: the pipeline has not made its calls yet, or a
\* task waits for a slot
PendingCalls ==
    \/ mpc = "pipeline"
    \/ \E q \in Queries : spc[q] = "wait"
    \/ \E c \in Candidates : dpc[c] = "pending"

\* a catalog call is in flight: its request was sent and it has not returned
InFlightCalls ==
    \/ mpc = "pgoCall"
    \/ \E q \in Queries : spc[q] = "call"
    \/ \E c \in Candidates : dpc[c] = "call"

\* SearchDownloadMerge calls itself: no call returns, the stack grows until the
\* runtime ends the process (fatal error: stack overflow, exit code 2)
SelfRecursion ==
    /\ mpc = "pipeline" /\ impl = "self"
    /\ mpc' = "crashed"
    /\ exitCode' = 2
    /\ UNCHANGED <<cfgVars, unitVars, deadlineAt, failF, ctxDone, concurrency, taskVars,
                   errVars, accVars, ret, dst>>

\* the timeout of run's context expires
Deadline ==
    /\ mpc \in {"pipeline", "pgoCall", "waitQuery", "waitDownload"}
    /\ ~ctxDone["run"]
    /\ ctxDone' = Cancel(ctxDone, "run")
    /\ deadlineAt' = IF PendingCalls THEN "pending"
                      ELSE IF InFlightCalls THEN "inflight" ELSE "idle"
    /\ UNCHANGED <<cfgVars, unitVars, failF, mpc, concurrency, taskVars, errVars, accVars, runVars>>

\* ------------------------------------------- searchDownloadMergePGOEndpoint

PGOAcquire ==
    /\ mpc = "pipeline" /\ impl = "pgo"
    /\ CanAcquire(concurrency)
    /\ concurrency' = concurrency + 1
    /\ mpc' = IF StartsCall(ctxDone, "run") THEN "pgoCall" ELSE "pgoNoCall"
    /\ UNCHANGED <<cfgVars, unitVars, deadlineAt, failF, ctxDone, taskVars, errVars, accVars, runVars>>

PGOFail ==
    /\ mpc \in {"pgoCall", "pgoNoCall"}
    /\ concurrency' = Release(concurrency)
    /\ Failed("pgo", PGOErr)
    /\ ret' = PGOCallFailed(PGOErr)
    /\ mpc' = "returned"
    /\ UNCHANGED <<cfgVars, unitVars, deadlineAt, failF, ctxDone, taskVars, poolErr, accVars, dst, exitCode>>

PGOReturn ==
    /\ mpc = "pgoCall"
    /\ \E a \in Archives :
          LET m == MergedProfileOf(a) IN
          /\ profile' = m.acc.prof
          /\ profileIDs' = m.acc.ids
          /\ usedAfterMerge' = m.used
          /\ archive' = a
          /\ IF m.err # NoErr THEN Failed("pgo", m.err)
             ELSE UNCHANGED <<firstFailure, firstGroup>>
          /\ ret' = IF m.err # NoErr THEN Failure(m.err) ELSE Success
    /\ concurrency' = Release(concurrency)
    /\ mpc' = "returned"
    /\ UNCHANGED <<cfgVars, unitVars, deadlineAt, failF, ctxDone, taskVars, poolErr, dst, exitCode>>

\* ------------------------------------------------------ searchDownloadMerge

\* the loop of queryPool.Go: one search task per query
PoolStart ==
    /\ mpc = "pipeline" /\ impl = "pool"
    /\ spc' = [q \in Queries |-> "wait"]
    /\ mpc' = "waitQuery"
    /\ UNCHANGED <<cfgVars, unitVars, deadlineAt, failF, ctxDone, concurrency, sres, found, dpc,
                   errVars, accVars, runVars>>

SearchAcquire(q) ==
    /\ Alive /\ spc[q] = "wait"
    /\ CanAcquire(concurrency)
    /\ concurrency' = concurrency + 1
    /\ spc' = [spc EXCEPT ![q] = IF StartsCall(ctxDone, "query") THEN "call" ELSE "nocall"]
    /\ UNCHANGED <<cfgVars, unitVars, deadlineAt, failF, mpc, ctxDone, sres, found, dpc, errVars,
                   accVars, runVars>>

\* the request fails (transport, status, json, or the context is done)
SearchFail(q) ==
    /\ Alive /\ spc[q] \in {"call", "nocall"}
    /\ concurrency' = Release(concurrency)
    /\ sres' = [sres EXCEPT ![q] = "error"]
    /\ spc' = [spc EXCEPT ![q] = "failed"]
    /\ TaskFails("query", SearchErr(q))
    /\ UNCHANGED <<cfgVars, unitVars, deadlineAt, failF, mpc, found, dpc, accVars, runVars>>

\* the request returns r candidates
SearchReturn(q) ==
    /\ Alive /\ spc[q] = "call"
    /\ concurrency' = Release(concurrency)
    /\ \E r \in 0..MaxResults :
          /\ found' = [found EXCEPT ![q] = Response(q, r)]
          /\ sres' = [sres EXCEPT ![q] = IF r = 0 THEN "empty" ELSE "found"]
          /\ IF NoProfilesFound(Response(q, r))
             THEN /\ spc' = [spc EXCEPT ![q] = "failed"]
                  /\ TaskFails("query", SearchErr(q))
                  /\ UNCHANGED dpc
             ELSE /\ spc' = [spc EXCEPT ![q] = "done"]
                  /\ dpc' = [c \in Candidates |->
                               IF c \in Range(Truncate(Response(q, r), limit))
                               THEN "pending" ELSE dpc[c]]
                  /\ UNCHANGED <<ctxDone, errVars>>
    /\ UNCHANGED <<cfgVars, unitVars, deadlineAt, failF, mpc, accVars, runVars>>

DownloadAcquire(c) ==
    /\ Alive /\ dpc[c] = "pending"
    /\ CanAcquire(concurrency)
    /\ concurrency' = concurrency + 1
    /\ dpc' = [dpc EXCEPT ![c] = IF StartsCall(ctxDone, "download") THEN "call" ELSE "nocall"]
    /\ UNCHANGED <<cfgVars, unitVars, deadlineAt, failF, mpc, ctxDone, spc, sres, found, errVars,
                   accVars, runVars>>

DownloadFail(c) ==
    /\ Alive /\ dpc[c] \in {"call", "nocall"}
    /\ concurrency' = Release(concurrency)
    /\ dpc' = [dpc EXCEPT ![c] = "failed"]
    /\ TaskFails("download", DownloadErr(c))
    /\ UNCHANGED <<cfgVars, unitVars, deadlineAt, failF, mpc, spc, sres, found, accVars, runVars>>

\* DownloadProfile returns the response body
DownloadReturn(c) ==
    /\ Alive /\ dpc[c] = "call"
    /\ concurrency' = Release(concurrency)
    /\ dpc' = [dpc EXCEPT ![c] = "downloaded"]
    /\ UNCHANGED <<cfgVars, unitVars, deadlineAt, failF, mpc, ctxDone, spc, sres, found, errVars, accVars, runVars>>

\* ExtractCPUProfile, profile.ParseData and pgoProfile.Merge on the body d
DecodeMerge(c) ==
    /\ Alive /\ dpc[c] = "downloaded"
    /\ \E d \in DataKinds :
          IF d \notin Schemas
          THEN /\ dpc' = [dpc EXCEPT ![c] = "failed"]
               /\ TaskFails("download", DownloadErr(c))
               /\ UNCHANGED accVars
          ELSE LET m == Merge([prof |-> profile, ids |-> profileIDs], c, Profile(d, c)) IN
               /\ profile' = m.prof
               /\ profileIDs' = m.ids
               /\ UNCHANGED <<usedAfterMerge, archive>>
               /\ IF m.ok
                  THEN /\ dpc' = [dpc EXCEPT ![c] = "done"]
                       /\ UNCHANGED <<ctxDone, errVars>>
                  ELSE /\ dpc' = [dpc EXCEPT ![c] = "failed"]
                       /\ TaskFails("download", DownloadErr(c))
    /\ UNCHANGED <<cfgVars, unitVars, deadlineAt, failF, mpc, concurrency, spc, sres, found, runVars>>

\* queryPool.Wait
QueryWait ==
    /\ mpc = "waitQuery"
    /\ \A q \in Queries : SearchDone(q)
    /\ LET r == QueryWaitResult(poolErr) IN
       IF r # NoRet
       THEN ret' = r /\ mpc' = "returned"
       ELSE ret' = ret /\ mpc' = "waitDownload"
    /\ UNCHANGED <<cfgVars, unitVars, deadlineAt, failF, ctxDone, concurrency, taskVars, errVars, accVars, dst, exitCode>>

\* downloadPool.Wait
DownloadWait ==
    /\ mpc = "waitDownload"
    /\ \A c \in Candidates : DownloadDone(c)
    /\ ret' = DownloadWaitResult(poolErr)
    /\ mpc' = "returned"
    /\ UNCHANGED <<cfgVars, unitVars, deadlineAt, failF, ctxDone, concurrency, taskVars, errVars, accVars, dst, exitCode>>

\* ----------------------------------------------------- the rest of run

\* run after SearchDownloadMerge: MergedProfile.Write (os.Create, then the
\* write of p.profile, which panics on a nil receiver or a nil profile: exit
\* code 2), the deferred cancel and error handler, and main's exit
RunFinish ==
    /\ mpc = "returned"
    /\ mpc' = "exited"
    /\ ctxDone' = Cancel(ctxDone, "run")
    /\ \E fail \in BOOLEAN :
          /\ failF' = fail
          /\ IF ret.err # NoErr
             THEN /\ exitCode' = ExitCodeOf(ret.err, fail)
                  /\ UNCHANGED dst
             ELSE \E io \in {"create fails", "write fails", "ok"} :
                     IF io = "create fails"
                     THEN /\ exitCode' = ExitCodeOf(<<"create", 0, 0>>, fail)
                          /\ UNCHANGED dst
                     ELSE IF ret.prof = "nil" \/ profile = NilProfile
                          THEN /\ dst' = "created"
                               /\ exitCode' = 2
                          ELSE IF io = "write fails"
                               THEN /\ dst' = "created"
                                    /\ exitCode' = ExitCodeOf(<<"write", 0, 0>>, fail)
                               ELSE /\ dst' = "written"
                                    /\ exitCode' = 0
    /\ UNCHANGED <<cfgVars, unitVars, deadlineAt, concurrency, taskVars, errVars, accVars, ret>>

Next ==
    \/ RunStart
    \/ SelfRecursion
    \/ Deadline
    \/ PGOAcquire
    \/ PGOReturn
    \/ PGOFail
    \/ PoolStart
    \/ \E q \in Queries : SearchAcquire(q)
    \/ \E q \in Queries : SearchFail(q)
    \/ \E q \in Queries : SearchReturn(q)
    \/ \E c \in Candidates : DownloadAcquire(c)
    \/ \E c \in Candidates : DownloadFail(c)
    \/ \E c \in Candidates : DownloadReturn(c)
    \/ \E c \in Candidates : DecodeMerge(c)
    \/ QueryWait
    \/ DownloadWait
    \/ RunFinish

Spec == Init /\ [][Next]_vars

\* ------------------------------------------------------ MergedProfile.Merge
\* Concurrent callers of Merge on one MergedProfile, step by step: each caller
\* has decoded a profile of its own and calls Merge once.

\* the profiles a caller can have decoded: a CPU profile has one sample per
\* stack and label set, listed here in the order of these keys
Samples == {Sample(st, v, l) : st \in Stacks, v \in 1..MaxValue, l \in BOOLEAN}
KeyLess(a, b) == a.stack < b.stack \/ (a.stack = b.stack /\ ~a.label /\ b.label)
SampleSeqs ==
    {ss \in UNION {[1..n -> Samples] : n \in 0..MaxSamples} :
        \A i \in 1..(Len(ss) - 1) : KeyLess(ss[i], ss[i + 1])}
Decoded(t) ==
    {[schema |-> sc, srcs |-> {MergerID(t)}, sample |-> ss] :
        sc \in Schemas, ss \in SampleSeqs}

InitMerge ==
    /\ impl = "pool"
    /\ limit = 0
    /\ RunIdle
    /\ minput \in [Mergers -> UNION {Decoded(t) : t \in Mergers}]
    /\ \A t \in Mergers : minput[t] \in Decoded(t)
    /\ mprof = minput
    /\ mpos = [t \in Mergers |-> "idle"]
    /\ mres = [t \in Mergers |-> "none"]
    /\ mu = 0
    /\ HackIdle

\* sync.Mutex.Lock returns only when the mutex is free
MuFreeAlways(m) == TRUE
MuFree(m) == m = 0

\* Merge, "Drop labels": done on the caller's profile before the lock is taken
MergeStrip(t) ==
    /\ mpos[t] = "idle"
    /\ mprof' = [mprof EXCEPT ![t] = StripLabels(@)]
    /\ mpos' = [mpos EXCEPT ![t] = "stripped"]
    /\ UNCHANGED <<pipeVars, hackVars, profVars, minput, mres, mu>>

\* Merge, p.mu.Lock()
MergeLock(t) ==
    /\ mpos[t] = "stripped"
    /\ MuFree(mu)
    /\ mu' = t
    /\ mpos' = [mpos EXCEPT ![t] = "locked"]
    /\ UNCHANGED <<pipeVars, hackVars, profVars, minput, mprof, mres>>

\* Merge under the lock: the id is appended, then the profile is taken or merged
MergeApply(t) ==
    /\ mpos[t] = "locked"
    /\ profileIDs' = AppendID(profileIDs, MergerID(t))
    /\ LET m == ApplyProfile(profile, mprof[t]) IN
          /\ profile' = m.prof
          /\ mres' = [mres EXCEPT ![t] = IF m.ok THEN "ok" ELSE "err"]
    /\ mpos' = [mpos EXCEPT ![t] = "applied"]
    /\ UNCHANGED <<pipeVars, hackVars, minput, mprof, mu>>

\* defer p.mu.Unlock(): runs on every return of Merge, whatever it returns
UnlockOnSuccess(m, res) == IF res = "ok" THEN 0 ELSE m
DeferredUnlock(m, res) == 0

\* Merge returns: the deferred p.mu.Unlock()
MergeUnlock(t) ==
    /\ mpos[t] = "applied"
    /\ mu' = DeferredUnlock(mu, mres[t])
    /\ mpos' = [mpos EXCEPT ![t] = "returned"]
    /\ UNCHANGED <<pipeVars, hackVars, profVars, minput, mprof, mres>>

NextMerge ==
    \/ \E t \in Mergers : MergeStrip(t)
    \/ \E t \in Mergers : MergeLock(t)
    \/ \E t \in Mergers : MergeApply(t)
    \/ \E t \in Mergers : MergeUnlock(t)

SpecMerge == InitMerge /\ [][NextMerge]_vars

\* the goroutines of the callers are scheduled fairly: a caller that can take
\* a step of Merge takes it
FairMerge ==
    \A t \in Mergers :
        /\ WF_vars(MergeStrip(t))
        /\ WF_vars(MergeLock(t))
        /\ WF_vars(MergeApply(t))
        /\ WF_vars(MergeUnlock(t))

SpecMergeFair == InitMerge /\ [][NextMerge]_vars /\ FairMerge

\* -------------------------------------------------------- ApplyNoInlineHack
\* A function name is a string, modelled as the sequence of its parts, so that
\* prefix + name is a concatenation.
grpcProcessDataFunc == <<"google.golang.org/grpc/internal/transport.(*loopyWriter).processData">>
runtimeGoparkFunc == <<"runtime.gopark">>
doNotInlinePrefix == <<"DO NOT INLINE: ">>

\* the list ApplyNoInlineHack passes to renameNoInlineFuncs
noInlineFuncs == <<grpcProcessDataFunc, runtimeGoparkFunc>>

\* the names a function of a decoded Go profile can have: a targeted one or another
FuncNames == {grpcProcessDataFunc, runtimeGoparkFunc, <<"main.work">>}

\* lineContainsAny: leaf.Function.Name is equal to one of funcs
lineContainsAnyPart(name, funcs) ==
    \E i \in 1..Len(funcs) : \E k \in 1..Len(name) : <<name[k]>> = funcs[i]
lineContainsAny(name, funcs) == \E i \in 1..Len(funcs) : name = funcs[i]

\* renameNoInlineFuncs from sample k on: the leaf's Function is a pointer, so
\* the new name is seen through every sample that shares the function
RECURSIVE renameNoInlineFuncs(_, _, _, _)
renameNoInlineFuncs(names, leaves, funcs, k) ==
    IF k > Len(leaves) THEN [name |-> names, sample |-> leaves]
    ELSE LET f == leaves[k] IN
         IF f # 0 /\ lineContainsAny(names[f], funcs)
         THEN renameNoInlineFuncs([names EXCEPT ![f] = doNotInlinePrefix \o @],
                                  leaves, funcs, k + 1)
         ELSE renameNoInlineFuncs(names, leaves, funcs, k + 1)

InitNoInline ==
    /\ impl = "pool"
    /\ limit = 0
    /\ RunIdle
    /\ MergeIdle
    /\ fname \in [Funcs -> FuncNames]
    /\ leaf \in UNION {[1..n -> 0..NumFuncs] : n \in 0..MaxLeafSamples}
    /\ fname0 = fname
    /\ leaf0 = leaf
    /\ hpos = "before"

ApplyNoInlineHack ==
    /\ hpos = "before"
    /\ LET r == renameNoInlineFuncs(fname, leaf, noInlineFuncs, 1) IN
          /\ fname' = r.name
          /\ leaf' = r.sample
    /\ hpos' = "after"
    /\ UNCHANGED <<pipeVars, profVars, mergeVars, fname0, leaf0>>

NextNoInline == ApplyNoInlineHack

SpecNoInline == InitNoInline /\ [][NextNoInline]_vars

\* ----------------------------------------------------------------- claims

Returned == ret # NoRet
Calling(pc) == pc \in {"call", "nocall"}
Scheduled(q) == {c \in Candidates : c[1] = q /\ dpc[c] # "none"}

\* the catalog calls that hold a slot of Client.concurrency
Outstanding ==
    Cardinality({q \in Queries : Calling(spc[q])})
    + Cardinality({c \in Candidates : Calling(dpc[c])})
    + (IF mpc \in {"pgoCall", "pgoNoCall"} THEN 1 ELSE 0)

\* C1: the number of catalog calls outstanding at the same time (search,
\* download and the combined call) never exceeds maxConcurrency, however many
\* tasks are scheduled.
C1_ConcurrencyBound == Outstanding <= maxConcurrency

\* C1 witness: the ceiling is reached while more download tasks are scheduled
\* than the ceiling, one of them still waiting for a slot.
C1_Witness ==
    /\ Outstanding = maxConcurrency
    /\ Cardinality({c \in Candidates : dpc[c] # "none"}) > maxConcurrency
    /\ \E c \in Candidates : dpc[c] = "pending"

\* C2: the pipeline returns either (a MergedProfile, no error) or (no
\* MergedProfile, an error); a failed catalog call gives an error.
C2_DefiniteOutcome ==
    Returned => \/ ret.prof = "merged" /\ ret.err = NoErr
                \/ ret.prof = "nil" /\ ret.err # NoErr

\* C3: once searchDownloadMerge has returned, a failed download task (download,
\* extraction, decode or merge) means it returned an error and no
\* MergedProfile, whatever else was merged.
C3_FailFast ==
    (impl = "pool" /\ Returned /\ \E c \in Candidates : dpc[c] = "failed")
        => ret.prof = "nil" /\ ret.err # NoErr

\* C3 witness: every search succeeded, one download was merged and another
\* failed, and searchDownloadMerge has returned.
C3_Witness ==
    /\ impl = "pool" /\ Returned
    /\ \A q \in Queries : spc[q] = "done"
    /\ \E c \in Candidates : dpc[c] = "failed"
    /\ \E c \in Candidates : dpc[c] = "done"
    /\ profile # NilProfile

\* C4: when the acquisition failed (a catalog call or the codec), the
\* destination file is never created, truncated or written.
C4_NoArtifactOnFailure == firstGroup # "none" => dst = "absent"

\* C5 as claimed: after an error of a task of either group, the cancellation
\* is visible to the tasks of both groups.
C5_SharedCancellation ==
    (\E g \in Groups : poolErr[g] # NoErr)
        => ctxDone["query"] /\ ctxDone["download"]

\* C5 amended: a task error cancels the context of the task's own group, a
\* group's context is cancelled while the pipeline waits for it only by such
\* an error or by run's context, and the cancellation of run's context (the
\* deadline) is visible to both groups.
C5_GroupCancellation ==
    /\ \A g \in Groups : poolErr[g] # NoErr => ctxDone[g]
    /\ \A g \in Groups :
          (mpc \in {"waitQuery", "waitDownload"} /\ ctxDone[g])
              => (poolErr[g] # NoErr \/ ctxDone["run"])
    /\ ctxDone["run"] => ctxDone["query"] /\ ctxDone["download"]

\* C5 witness: a download task failed and its group is cancelled, while a
\* search task that has not started its call sees no cancellation.
C5_Witness ==
    /\ poolErr["download"] # NoErr /\ ctxDone["download"]
    /\ ~ctxDone["query"]
    /\ \E q \in Queries : spc[q] = "wait"

\* C6 as claimed: the error the pipeline returns is the error of the task that
\* failed first in time, in whichever group.
C6_FirstErrorOverall ==
    (impl = "pool" /\ Returned /\ ret.err # NoErr) => ret.err = FirstError

\* C6 amended: the error returned is the first error in time of the search
\* group when a search task failed before queryPool.Wait returned, and
\* otherwise the first error in time of the download group.
C6_FirstErrorPerGroup ==
    (impl = "pool" /\ Returned /\ ret.err # NoErr) =>
        ret.err = IF firstFailure["query"] # NoErr
                  THEN firstFailure["query"] ELSE firstFailure["download"]

\* C6 witness: a download task failed first, a search task failed later, and
\* the pipeline returned the search task's error.
C6_Witness ==
    /\ impl = "pool" /\ Returned
    /\ firstGroup = "download"
    /\ firstFailure["query"] # NoErr
    /\ ret.err = firstFailure["query"]

\* a task or call starts its network request in this step
SearchStarts(q) == spc[q] # "call" /\ spc'[q] = "call"
DownloadStarts(c) == dpc[c] # "call" /\ dpc'[c] = "call"
PGOStarts == mpc # "pgoCall" /\ mpc' = "pgoCall"

\* C7 as claimed: once a cancellation has fired (a task error or the
\* deadline), no task starts a catalog call.
C7_NoCallAfterAnyCancel ==
    [][(\E x \in Contexts : ctxDone[x]) =>
          /\ \A q \in Queries : ~SearchStarts(q)
          /\ \A c \in Candidates : ~DownloadStarts(c)
          /\ ~PGOStarts]_vars

\* C7 amended: once the context of a task's own group is cancelled (an error of
\* a task of that group, or the deadline), the task starts no catalog call: it
\* still takes a slot, and its request fails before it is sent.
C7_NoCallAfterOwnCancel ==
    [][/\ \A q \in Queries : SearchStarts(q) => ~ctxDone["query"]
       /\ \A c \in Candidates : DownloadStarts(c) => ~ctxDone["download"]
       /\ PGOStarts => ~ctxDone["run"]]_vars

\* C7 witness: after a download error, a download task that was waiting for a
\* slot holds one without having sent its request.
C7_Witness ==
    /\ poolErr["download"] # NoErr /\ ~ctxDone["run"]
    /\ \E c \in Candidates : dpc[c] = "nocall"

\* C8: for every query, the download tasks scheduled are those of the first
\* min(limit, R) candidates of its own search result of size R.
C8_Truncation ==
    \A q \in Queries :
        Scheduled(q) = {found[q][i] : i \in 1..Min(limit, Len(found[q]))}

\* C8 witness: both queries got more candidates than the limit, and each keeps
\* its own first `limit` candidates, more than `limit` in total.
C8_Witness ==
    /\ limit = 2
    /\ \A q \in Queries : Len(found[q]) = 3 /\ Cardinality(Scheduled(q)) = 2

\* C9 as claimed: with one query that got zero candidates and every other
\* search and download succeeding, the pipeline succeeds with the merge of the
\* other queries' profiles.
C9_ZeroResultsNotAnError ==
    (/\ impl = "pool" /\ Returned
     /\ \E q \in Queries : sres[q] = "empty"
     /\ \E q \in Queries : sres[q] = "found" /\ Scheduled(q) # {}
     /\ \A q \in Queries : sres[q] \in {"empty", "found"}
     /\ \A c \in Candidates : dpc[c] \in {"none", "done"})
        => ret = Success

\* C9 amended: a query whose search gets zero candidates is an error by itself
\* ("no profiles found"): the pipeline returns an error and no MergedProfile,
\* also when every other search and download succeeds.
C9_ZeroResultsIsAnError ==
    (impl = "pool" /\ Returned /\ \E q \in Queries : sres[q] = "empty")
        => ret.prof = "nil" /\ ret.err # NoErr

\* C9 witness: one query got zero candidates, the other got candidates that
\* were all downloaded and merged, and the pipeline has returned.
C9_Witness ==
    /\ impl = "pool" /\ Returned
    /\ sres[1] = "found" /\ sres[2] = "empty"
    /\ Scheduled(1) # {}
    /\ \A c \in Scheduled(1) : dpc[c] = "done"

\* C10: when no profile at all was acquired, the pipeline returns an error and
\* no MergedProfile; it never returns success with a nil underlying profile.
C10_NoEmptySuccess ==
    (Returned /\ profile = NilProfile /\ profileIDs = <<>>)
        => ret.prof = "nil" /\ ret.err # NoErr

\* the candidates of query q that survive the truncation to the limit
Retained(q) == {found[q][i] : i \in 1..Min(limit, Len(found[q]))}

\* the number of candidates retained by the queries 1..q
RECURSIVE RetainedCount(_)
RetainedCount(q) ==
    IF q = 0 THEN 0 ELSE Min(limit, Len(found[q])) + RetainedCount(q - 1)

\* C14: when searchDownloadMerge returns success, every retained candidate was
\* downloaded, decoded and merged exactly once: profileIDs has one entry per
\* retained candidate, its length is the sum of min(limit, R) over the
\* queries, and the merged profile holds each candidate's sample once.
C14_OneEntryPerRetained ==
    (impl = "pool" /\ ret = Success) =>
        /\ Len(profileIDs) = RetainedCount(NumQueries)
        /\ \A q \in Queries : \A c \in Retained(q) :
              /\ Cardinality({i \in 1..Len(profileIDs) : profileIDs[i] = c}) = 1
              /\ Cardinality({i \in 1..Len(profile.sample) :
                                 profile.sample[i].stack = c}) = 1
              /\ \A i \in 1..Len(profile.sample) :
                    profile.sample[i].stack = c => profile.sample[i].value = 1

\* C14 witness: limit 2, one query found 3 candidates and the other 1, the
\* pipeline succeeded and profileIDs has 3 entries.
C14_Witness ==
    /\ impl = "pool" /\ ret = Success
    /\ limit = 2 /\ Len(found[1]) = 3 /\ Len(found[2]) = 1
    /\ Len(profileIDs) = 3

\* C20: searchDownloadMerge returns success only after every search task has
\* finished and then every scheduled download task has finished: at a
\* successful return no task is running or pending, and no Merge is in flight.
C20_TwoPhaseWait ==
    (impl = "pool" /\ ret = Success) =>
        /\ \A q \in Queries : spc[q] = "done"
        /\ \A c \in Candidates : dpc[c] \in {"none", "done"}
        /\ \A q \in Queries : \A c \in Retained(q) : dpc[c] = "done"

\* C20 witness: both queries scheduled downloads, all of them were merged, and
\* the pipeline returned success.
C20_Witness ==
    /\ impl = "pool" /\ ret = Success
    /\ \A q \in Queries : Cardinality(Scheduled(q)) >= 2
    /\ \A c \in Candidates : dpc[c] \in {"none", "done"}

\* the process has exited
Exited == mpc = "exited"

\* C15: without -fail the process exits with code 0 for every outcome of the
\* run, in particular when the acquisition fails.
C15_ZeroExitWithoutFail == (Exited /\ ~failF) => exitCode = 0

\* C16: with -fail, every acquisition failure makes run return an error, which
\* main turns into its non-zero exit code (os.Exit(1)).
C16_FailReturnsError == (Exited /\ failF /\ firstGroup # "none") => exitCode = 1

\* run ended on the error of ClientFromEnv: it exited without reaching the pipeline
ConfigError == Exited /\ ~Returned

\* no catalog call was made, no task was started and nothing was written
NoCatalogCall ==
    /\ concurrency = 0
    /\ \A q \in Queries : spc[q] = "idle" /\ sres[q] = "none"
    /\ \A c \in Candidates : dpc[c] = "none"
    /\ firstGroup = "none"
    /\ dst = "absent"

\* C17 as claimed: a configuration error is surfaced whatever -fail says: it
\* is never downgraded to exit code 0.
C17_ConfigErrorAlwaysSurfaced == ConfigError => exitCode # 0

\* C17 amended: a configuration error ends the run before the pipeline, with
\* no catalog call made, and it is handled like every other error of run:
\* exit code 1 with -fail, a logged warning and exit code 0 without it.
C17_ConfigErrorDowngraded ==
    ConfigError => /\ NoCatalogCall
                   /\ exitCode = IF failF THEN 1 ELSE 0

\* C17 witness: a run without -fail that ended on a configuration error with
\* exit code 0.
C17_Witness == ConfigError /\ ~failF /\ exitCode = 0

\* C18: no caller of Merge uses a profile after it has passed it to Merge:
\* neither the download tasks nor the archive loop of
\* ProfilesDownload.MergedProfile read or mutate it again.
C18_NoUseAfterMerge == usedAfterMerge = {}

\* ------------------------------------------- claims on MergedProfile.Merge

\* the sum of the values of the samples of stack st in a list of samples
RECURSIVE SumValues(_, _)
SumValues(ss, st) ==
    IF ss = <<>> THEN 0
    ELSE (IF Head(ss).stack = st THEN Head(ss).value ELSE 0) + SumValues(Tail(ss), st)

StackTotal(p, st) == SumValues(p.sample, st)

\* the sum over the callers 1..t that are in T of the value of stack st in
\* the profile they decoded
RECURSIVE InputTotal(_, _, _)
InputTotal(t, T, st) ==
    IF t = 0 THEN 0
    ELSE (IF t \in T THEN StackTotal(minput[t], st) ELSE 0) + InputTotal(t - 1, T, st)

\* the callers inside the locked section of Merge, and those whose profile
\* Merge has applied
InLocked == {t \in Mergers : mpos[t] \in {"locked", "applied"}}
Applied == {t \in Mergers : mpos[t] \in {"applied", "returned"}}
NoMergeFailed == \A t \in Mergers : mres[t] # "err"

\* C11: under every interleaving of concurrent Merge calls at most one caller
\* is inside the locked section, and while every Merge call so far succeeded
\* the accumulated profile is the union of the inputs applied: each stack's
\* value is the sum over these inputs, and each input is there exactly once.
C11_SerializedUnion ==
    /\ Cardinality(InLocked) <= 1
    /\ NoMergeFailed =>
          /\ \A st \in Stacks :
                StackTotal(profile, st) = InputTotal(NumMergers, Applied, st)
          /\ profile.srcs = {MergerID(t) : t \in Applied}
          /\ \A t \in Applied :
                Cardinality({i \in 1..Len(profileIDs) : profileIDs[i] = MergerID(t)}) = 1
          /\ Len(profileIDs) = Cardinality(Applied)

\* C11 witness: one caller has returned, a second one holds the lock with its
\* profile merged, the third waits for the lock, and a stack that both merged
\* inputs have carries the sum of their values.
C11_Witness ==
    /\ NoMergeFailed
    /\ \E t, u, w \in Mergers :
          /\ mpos[t] = "returned" /\ mpos[u] = "applied" /\ mpos[w] = "stripped"
          /\ \E st \in Stacks :
                /\ StackTotal(minput[t], st) > 0 /\ StackTotal(minput[u], st) > 0
                /\ StackTotal(profile, st)
                     = StackTotal(minput[t], st) + StackTotal(minput[u], st)

\* every caller decoded a profile of the same sample types
Compatible == \A t, u \in Mergers : minput[t].schema = minput[u].schema

\* the orders in which the callers can be merged
Orders == {o \in [1..NumMergers -> Mergers] : \A i, j \in 1..NumMergers : o[i] = o[j] => i = j}

\* Merge called for the decoded profiles of the callers o[k], o[k+1], ... in turn
RECURSIVE MergeInOrder(_, _, _)
MergeInOrder(acc, o, k) ==
    IF k > NumMergers THEN acc
    ELSE MergeInOrder(Merge(acc, MergerID(o[k]), minput[o[k]]), o, k + 1)

\* C12: for profiles of compatible sample types, once all of them are merged,
\* in whatever order the callers got the lock, the value of each stack in the
\* accumulated profile is the sum of that stack's values over all inputs; and
\* every order of sequential Merge calls gives these same totals.
C12_OrderIndependent ==
    (Compatible /\ \A t \in Mergers : mpos[t] = "returned") =>
        \A st \in Stacks :
            /\ StackTotal(profile, st) = InputTotal(NumMergers, Mergers, st)
            /\ \A o \in Orders :
                  StackTotal(MergeInOrder(EmptyAcc, o, 1).prof, st)
                      = InputTotal(NumMergers, Mergers, st)

\* C12 witness: three compatible profiles were merged in another order than
\* that of the callers, and a stack present in all three carries the sum.
C12_Witness ==
    /\ Compatible /\ \A t \in Mergers : mpos[t] = "returned"
    /\ profileIDs = <<MergerID(3), MergerID(1), MergerID(2)>>
    /\ \E st \in Stacks :
          /\ \A t \in Mergers : StackTotal(minput[t], st) > 0
          /\ StackTotal(profile, st) >= 3

\* C13: no sample of the accumulated profile carries labels, whatever the
\* inputs carried, the first profile (taken as it is) included.
C13_NoLabels ==
    \A i \in 1..Len(profile.sample) : ~profile.sample[i].label

\* C13 witness: the accumulated profile is the first profile alone, taken as
\* it is, and the caller had decoded it with a label on every sample.
C13_Witness ==
    \E t \in Mergers :
        /\ Applied = {t}
        /\ Len(minput[t].sample) = MaxSamples
        /\ \A i \in 1..Len(minput[t].sample) : minput[t].sample[i].label
        /\ Len(profile.sample) = MaxSamples

\* ---------------------------------------------- claims on ApplyNoInlineHack

\* leafSamples of the test: the number of samples whose leaf function is named fn
leafSamples(names, leaves, fn) ==
    Cardinality({i \in 1..Len(leaves) : leaves[i] # 0 /\ names[leaves[i]] = fn})

\* the functions that are the leaf of a sample
LeafFuncs(leaves) == {leaves[i] : i \in 1..Len(leaves)} \ {0}

\* C19: after ApplyNoInlineHack no sample has a leaf function with a targeted
\* name; for each target the samples whose leaf is named prefix + target are
\* as many as those whose leaf was the target before; a function is renamed
\* once, however many samples share it, and only if it was a targeted leaf;
\* and the samples are the same in number.
C19_NoInlineRename ==
    hpos = "after" =>
        /\ \A i \in 1..Len(noInlineFuncs) :
              /\ leafSamples(fname, leaf, noInlineFuncs[i]) = 0
              /\ leafSamples(fname, leaf, doNotInlinePrefix \o noInlineFuncs[i])
                   = leafSamples(fname0, leaf0, noInlineFuncs[i])
        /\ \A f \in Funcs :
              fname[f] = IF f \in LeafFuncs(leaf0) /\ lineContainsAny(fname0[f], noInlineFuncs)
                         THEN doNotInlinePrefix \o fname0[f] ELSE fname0[f]
        /\ Len(leaf) = Len(leaf0)

\* C19 witness: two samples shared a leaf function with a targeted name, a
\* third sample had no leaf line, and after the call the function carries the
\* prefix once and both samples are counted under the new name.
C19_Witness ==
    /\ hpos = "after"
    /\ \E f \in Funcs :
          /\ fname0[f] = grpcProcessDataFunc
          /\ Cardinality({i \in 1..Len(leaf0) : leaf0[i] = f}) = 2
          /\ fname[f] = doNotInlinePrefix \o grpcProcessDataFunc
    /\ \E i \in 1..Len(leaf0) : leaf0[i] = 0
    /\ leafSamples(fname, leaf, doNotInlinePrefix \o grpcProcessDataFunc) = 2

\* C21: once a Merge call has succeeded the accumulated profile is never nil,
\* also right after a later Merge call failed on incompatible sample types.
C21_NeverNilAfterSuccess ==
    (\E t \in Mergers : mres[t] = "ok") => profile # NilProfile

\* C22: the contribution list holds the ids of the Merge calls that
\* succeeded, and no others: a failed call does not add its id, and the
\* length of the list is the number of successful merges.
C22_IdsOfSuccessfulMerges ==
    /\ Range(profileIDs) = {MergerID(t) : t \in {u \in Mergers : mres[u] = "ok"}}
    /\ Len(profileIDs) = Cardinality({t \in Mergers : mres[t] = "ok"})

\* C23 as claimed: the incoming profile is mutated (its labels stripped) only
\* by a caller that holds the lock.
C23_LockCoversStrip ==
    [][\A t \in Mergers : mprof'[t] # mprof[t] => mu = t]_vars

\* C23 amended: the lock covers the accumulator's fields only. A caller
\* strips the labels of its own profile before it takes the lock, and the
\* contribution list and the accumulated profile change only in a step of
\* the one caller that holds the lock.
C23_LockCoversAccumulatorOnly ==
    [][/\ \A t \in Mergers :
             mprof'[t] # mprof[t] => mpos[t] = "idle" /\ mu # t
       /\ (profile' # profile \/ profileIDs' # profileIDs) =>
             \E t \in Mergers :
                 /\ mu = t /\ InLocked = {t}
                 /\ mpos[t] = "locked" /\ mpos'[t] = "applied"]_vars

\* C23 witness: a caller has stripped the labels of its profile and waits for
\* the lock, which another caller holds.
C23_Witness ==
    \E t, u \in Mergers :
        /\ t # u /\ mu = u
        /\ mpos[t] = "stripped" /\ mprof[t] # minput[t]

\* C24: Merge never fails because of contention, it blocks: under fair
\* scheduling every Merge call returns and the lock ends up free, also when a
\* Merge call failed on the way (a call fails only on profile.Merge's error).
C24_MergeReturns ==
    /\ <>[](mu = 0 /\ \A t \in Mergers : mpos[t] = "returned")
    /\ [](\A t \in Mergers : mres[t] = "err" => ~Compatible)

\* C24 witness: a Merge call failed, and a call that took the lock after it
\* has returned with the lock free again.
C24_Witness ==
    /\ mu = 0 /\ \A t \in Mergers : mpos[t] = "returned"
    /\ \E i, j \in 1..Len(profileIDs) :
          /\ i < j
          /\ mres[profileIDs[i][2]] = "err"
          /\ mres[profileIDs[j][2]] = "ok"

\* ------------------------------------------------ more claims on the run

\* C25: when the deadline expired while a catalog call was pending or in
\* flight, the cancellation is visible to both groups and the pipeline
\* returns an error and no MergedProfile.
C25_DeadlineFailsPipeline ==
    (Returned /\ deadlineAt \in {"pending", "inflight"}) =>
        /\ ctxDone["query"] /\ ctxDone["download"]
        /\ ret.prof = "nil" /\ ret.err # NoErr

\* C26: with usePGOEndpoint false, SearchDownloadMerge runs
\* searchDownloadMerge and the call terminates with its result: the process
\* does not die inside the call.
C26_SwitchTerminates ==
    impl = SearchDownloadMergeImpl(FALSE) => mpc # "crashed"

\* the first entry of an archive that fails: it does not parse, or its sample
\* types differ from those of the entries merged before it; 0 if none fails
FirstFailing(files) ==
    LET failing == {k \in 1..Len(files) : files[k] = "bad" \/ files[k] # files[1]} IN
    IF failing = {} THEN 0 ELSE CHOOSE k \in failing : \A j \in failing : k <= j

\* the pgo endpoint has answered and ProfilesDownload.MergedProfile has returned
ArchiveMerged == impl = "pgo" /\ Returned /\ firstFailure["pgo"] # PGOErr

\* C27: ProfilesDownload.MergedProfile merges the entries in archive order:
\* on success the contribution list is the sequence of the entries' names and
\* every entry is in the profile; when an entry fails to parse or to merge
\* (or the archive is no zip) it returns that entry's error and no
\* MergedProfile, and no entry after the failing one has been merged.
C27_ArchiveInOrder ==
    ArchiveMerged =>
        LET k == FirstFailing(archive.files) IN
        IF archive.zip /\ k = 0
        THEN /\ ret = Success
             /\ profileIDs = [i \in 1..Len(archive.files) |-> <<0, i>>]
             /\ profile.srcs = {<<0, i>> : i \in 1..Len(archive.files)}
        ELSE /\ ret.prof = "nil"
             /\ ret.err = ArchiveErr(k)
             /\ Len(profileIDs) <= k
             /\ \A i \in 1..Len(profileIDs) : profileIDs[i] = <<0, i>>

\* C27 witness: an archive of MaxEntries entries was merged, the list naming
\* them in archive order.
C27_Witness ==
    /\ ArchiveMerged /\ ret = Success
    /\ Len(archive.files) = MaxEntries
    /\ profileIDs = [i \in 1..MaxEntries |-> <<0, i>>]

\* C28: on every successful run ApplyNoInlineHack has been applied to the
\* merged profile before the profile is written to the destination.
C28_NoInlineApplied == (Exited /\ dst = "written") => hpos = "after"

\* C29: whenever searchDownloadMerge has returned, with success or with an
\* error, every search task and every download task it scheduled has ended.
C29_NoTaskOutlives ==
    (impl = "pool" /\ Returned) =>
        /\ \A q \in Queries : spc[q] \in {"done", "failed"}
        /\ \A c \in Candidates : dpc[c] \in {"none", "done", "failed"}

\* the steps of the tasks and of the waits of searchDownloadMerge: those that
\* fair scheduling and returning catalog calls make happen
PoolStep ==
    \/ \E q \in Queries : SearchAcquire(q)
    \/ \E q \in Queries : SearchFail(q) \/ SearchReturn(q)
    \/ \E c \in Candidates : DownloadAcquire(c)
    \/ \E c \in Candidates : DownloadFail(c) \/ DownloadReturn(c)
    \/ \E c \in Candidates : DecodeMerge(c)
    \/ QueryWait
    \/ DownloadWait

\* the steps that are left: of run, of a search task, of a download task
RunRank ==
    CASE mpc = "start" -> 5
      [] mpc = "pipeline" -> 4
      [] mpc \in {"pgoCall", "pgoNoCall", "waitQuery"} -> 3
      [] mpc = "waitDownload" -> 2
      [] mpc = "returned" -> 1
      [] OTHER -> 0
DownloadRank ==
    3 * Cardinality({c \in Candidates : dpc[c] = "pending"})
    + 2 * Cardinality({c \in Candidates : Calling(dpc[c])})
    + Cardinality({c \in Candidates : dpc[c] = "downloaded"})
SearchRank ==
    (3 * MaxResults + 3) * Cardinality({q \in Queries : spc[q] = "idle"})
    + (3 * MaxResults + 2) * Cardinality({q \in Queries : spc[q] = "wait"})
    + (3 * MaxResults + 1) * Cardinality({q \in Queries : Calling(spc[q])})
Rank ==
    RunRank + SearchRank + DownloadRank + (IF ctxDone["run"] THEN 0 ELSE 1)

\* C30: the pipeline never deadlocks. While searchDownloadMerge has not
\* returned, a step of a task or of a wait is possible (a call that was made
\* can return, a task waiting for a slot can take one or a call holding one
\* can return); every step uses up one of finitely many steps left, so under
\* fair scheduling the waiting tasks get their slots and searchDownloadMerge
\* returns; and the slots taken are exactly those of the tasks inside a
\* catalog call: a slot is given back when its call returns, with an answer
\* or an error, and no task keeps one while it waits, decodes or merges.
C30_NoDeadlock ==
    /\ [](mpc \in {"waitQuery", "waitDownload"} => ENABLED PoolStep)
    /\ [](\A q \in Queries : \A c \in Candidates :
            (spc[q] = "wait" \/ dpc[c] = "pending") /\ ~CanAcquire(concurrency)
                => \E d \in Candidates : Calling(dpc[d]))
    /\ [](concurrency = Outstanding)
    /\ [][Rank' < Rank]_vars

\* C30 witness: more download tasks than maxConcurrency were scheduled, one of
\* them had to wait for a slot, all of them ended with every slot given back,
\* and searchDownloadMerge returned.
C30_Witness ==
    /\ impl = "pool" /\ Returned
    /\ Cardinality({c \in Candidates : dpc[c] \in {"done", "failed"}}) > maxConcurrency
    /\ concurrency = 0

====
